---- MODULE Spec2Model ----
(***************************************************************************)
(* A model of format_novel.py: the text helpers (strip, split, the         *)
(* textwrap.fill call of format_paragraphs, str.center), the section       *)
(* builders, gather_chapters and the control flow of main.                 *)
(*                                                                         *)
(* A Python str is a sequence of characters; a character is a TLA+ string  *)
(* ("a", " ", "\n", or a name such as "orn" for a non-ASCII glyph).         *)
(***************************************************************************)
EXTENDS Integers, Sequences, FiniteSets, TLC

VARIABLES
    pc,               \* the position in main, or "call"/"returned" for one function
    args,             \* the command line of main, or the arguments of the function
    ret,              \* the value the function returned
    fs,               \* the files, the directory listing and the installed modules
    chapter_paths,    \* main: chapter_paths
    intro_text,       \* main: intro_text
    chapters,         \* main: chapters
    conclusion_text,  \* main: conclusion_text
    formatted,        \* main: formatted (some = FALSE for None)
    written,          \* the output files written so far, in order
    error,            \* the exception that ended the run
    log               \* the operations done on chapter paths and files, in order

vars == <<pc, args, ret, fs, chapter_paths, intro_text, chapters, conclusion_text,
          formatted, written, error, log>>

\* ------------------------------------------------------------------ bounds
\* Longest text drawn as an input of format_paragraphs.
MaxTextLen == 5

\* ------------------------------------------------------- string primitives
NL == "\n"
SP == " "
Whitespace == {SP, NL}

IsBlank(s) == \A i \in 1..Len(s) : s[i] \in Whitespace

\* str.lstrip() / str.rstrip() / str.strip()
LStrip(s) ==
    IF IsBlank(s) THEN <<>>
    ELSE LET first == CHOOSE i \in 1..Len(s) :
                         /\ s[i] \notin Whitespace
                         /\ \A j \in 1..(i - 1) : s[j] \in Whitespace
         IN  SubSeq(s, first, Len(s))

RStrip(s) ==
    IF IsBlank(s) THEN <<>>
    ELSE LET last == CHOOSE i \in 1..Len(s) :
                        /\ s[i] \notin Whitespace
                        /\ \A j \in (i + 1)..Len(s) : s[j] \in Whitespace
         IN  SubSeq(s, 1, last)

Strip(s) == LStrip(RStrip(s))

\* n copies of character c
Repeat(c, n) == [i \in 1..n |-> c]

\* sep.join(parts) for a list of strings
RECURSIVE Join(_, _)
Join(sep, parts) ==
    IF Len(parts) = 0 THEN <<>>
    ELSE IF Len(parts) = 1 THEN parts[1]
    ELSE parts[1] \o sep \o Join(sep, Tail(parts))

\* text.split("\n\n"): non-overlapping separators, scanned left to right
RECURSIVE SplitBlank(_, _)
SplitBlank(s, cur) ==
    IF Len(s) = 0 THEN <<cur>>
    ELSE IF Len(s) >= 2 /\ s[1] = NL /\ s[2] = NL
         THEN <<cur>> \o SplitBlank(SubSeq(s, 3, Len(s)), <<>>)
         ELSE SplitBlank(Tail(s), Append(cur, s[1]))

\* str.splitlines(): lines end at "\n"; no empty last line
SplitLines(s) ==
    LET ends  == {i \in 1..Len(s) : s[i] = NL}
        stops == IF Len(s) > 0 /\ s[Len(s)] # NL THEN ends \cup {Len(s) + 1} ELSE ends
        Nth(k) == CHOOSE e \in stops : Cardinality({x \in stops : x < e}) = k - 1
        Start(k) == IF k = 1 THEN 1 ELSE Nth(k - 1) + 1
    IN  [k \in 1..Cardinality(stops) |-> SubSeq(s, Start(k), Nth(k) - 1)]

\* str.split("\n"): as splitlines, but the text after the last "\n" is always a part
SplitNL(s) ==
    LET stops == {i \in 1..Len(s) : s[i] = NL} \cup {Len(s) + 1}
        Nth(k) == CHOOSE e \in stops : Cardinality({x \in stops : x < e}) = k - 1
        Start(k) == IF k = 1 THEN 1 ELSE Nth(k - 1) + 1
    IN  [k \in 1..Cardinality(stops) |-> SubSeq(s, Start(k), Nth(k) - 1)]

\* filter of a list of strings
RECURSIVE SelectNonBlank(_)
SelectNonBlank(parts) ==
    IF Len(parts) = 0 THEN <<>>
    ELSE IF IsBlank(parts[1]) THEN SelectNonBlank(Tail(parts))
         ELSE <<Strip(parts[1])>> \o SelectNonBlank(Tail(parts))

Max(a, b) == IF a >= b THEN a ELSE b

\* str.rjust(width): pad on the left, never truncate
RJust(s, width) == Repeat(SP, Max(width - Len(s), 0)) \o s

\* ------------------------------------------------------------ textwrap.fill
\* TextWrapper._munge_whitespace: every whitespace character becomes a space
Munge(s) == [i \in 1..Len(s) |-> IF s[i] \in Whitespace THEN SP ELSE s[i]]

\* TextWrapper._split: maximal runs of spaces and of non-spaces
RECURSIVE Chunks(_, _)
Chunks(s, cur) ==
    IF Len(s) = 0 THEN (IF Len(cur) = 0 THEN <<>> ELSE <<cur>>)
    ELSE IF Len(cur) = 0 \/ ((cur[1] = SP) <=> (s[1] = SP))
         THEN Chunks(Tail(s), Append(cur, s[1]))
         ELSE <<cur>> \o Chunks(s, <<>>)

\* the inner loop of _wrap_chunks: how many leading chunks fit on the line
RECURSIVE FitCount(_, _, _)
FitCount(chunks, curLen, width) ==
    IF Len(chunks) > 0 /\ curLen + Len(chunks[1]) <= width
    THEN 1 + FitCount(Tail(chunks), curLen + Len(chunks[1]), width)
    ELSE 0

RECURSIVE SumLen(_)
SumLen(parts) == IF Len(parts) = 0 THEN 0 ELSE Len(parts[1]) + SumLen(Tail(parts))

Min(a, b) == IF a <= b THEN a ELSE b

\* _handle_long_word with break_long_words: the part of the chunk put on the line
LongWordHead(chunk, spaceLeft) == SubSeq(chunk, 1, Min(spaceLeft, Len(chunk)))

\* TextWrapper._wrap_chunks with break_long_words and drop_whitespace (the
\* defaults); lines is the list built so far, indent the indent string
RECURSIVE WrapChunks(_, _, _, _)
WrapChunks(chunks, lines, width, indent) ==
    IF Len(chunks) = 0 THEN lines
    ELSE
    LET avail == width - Len(indent)
        \* drop a whitespace chunk that would start a line after the first
        c0 == IF IsBlank(chunks[1]) /\ Len(lines) > 0 THEN Tail(chunks) ELSE chunks
        n  == FitCount(c0, 0, avail)
        line1 == SubSeq(c0, 1, n)
        c1 == SubSeq(c0, n + 1, Len(c0))
        len1 == SumLen(line1)
        \* _handle_long_word: a chunk longer than the line is cut to fill it
        long == Len(c1) > 0 /\ Len(c1[1]) > avail
        spaceLeft == IF avail < 1 THEN 1 ELSE avail - len1
        head == LongWordHead(c1[1], spaceLeft)
        line2 == IF long THEN Append(line1, head) ELSE line1
        c2 == IF long THEN <<SubSeq(c1[1], Len(head) + 1, Len(c1[1]))>> \o Tail(c1) ELSE c1
        \* drop a whitespace chunk that ends the line
        line3 == IF Len(line2) > 0 /\ IsBlank(line2[Len(line2)])
                 THEN SubSeq(line2, 1, Len(line2) - 1) ELSE line2
        out == IF Len(line3) > 0 THEN Append(lines, indent \o Join(<<>>, line3)) ELSE lines
    IN  WrapChunks(c2, out, width, indent)

\* textwrap.fill(para, width, initial_indent, subsequent_indent).splitlines()
FillLines(para, width, indent) ==
    SplitLines(Join(<<NL>>, WrapChunks(Chunks(Munge(para), <<>>), <<>>, width, indent)))

\* ------------------------------------------------------- format_paragraphs
Spacer(line_spacing) == Repeat(NL, Max(line_spacing, 1))

WrapBlock(para, width, indent, rtl_align) ==
    LET wrapped == FillLines(para, width, Repeat(SP, Max(indent, 0)))
        aligned == IF rtl_align
                   THEN [i \in 1..Len(wrapped) |-> RJust(wrapped[i], width)]
                   ELSE wrapped
    IN  Join(<<NL>>, aligned)

format_paragraphs(text, width, indent, rtl_align, line_spacing) ==
    LET paragraphs == SelectNonBlank(SplitBlank(text, <<>>))
        wrapped_blocks == [i \in 1..Len(paragraphs) |->
                              WrapBlock(paragraphs[i], width, indent, rtl_align)]
    IN  Join(Spacer(line_spacing), wrapped_blocks)

\* ------------------------------------------------------ literals of the code
\* Arabic letters and ornaments are named characters, one name per code point.
INTRO_TITLE == <<"alef", "lam", "meem", "qaf", "dal", "meem", "teh_marbuta">>
CONCLUSION_TITLE == <<"alef", "lam", "khah", "alef", "teh", "meem", "teh_marbuta">>
CHAPTER_WORD == <<"alef", "lam", "feh", "sad", "lam">>
ENDING_TITLE == <<"alef", "lam", "noon", "heh", "alef", "yeh", "teh_marbuta">>
CLOSING_WORD == <<"teh", "meem", "teh">>
TOC_TITLE == <<"jeem", "dal", "waw", "lam", " ", "alef", "lam", "meem", "hah", "teh", "waw",
               "yeh", "alef", "teh">>
STATS_TITLE == <<"meem", "lam", "khah", "sad", " ", "alef_with_hamza_below", "hah", "sad",
                 "alef", "yeh_with_hamza_above", "yeh">>
STATS_INTRO == <<"kaf", "lam", "meem", "alef", "teh", " ", "alef", "lam", "meem", "qaf", "dal",
                 "meem", "teh_marbuta", ":", " ">>
STATS_CHAPTER == <<"kaf", "lam", "meem", "alef", "teh", " ", "alef", "lam", "feh", "sad",
                   "lam", " ">>
STATS_CONCLUSION == <<"kaf", "lam", "meem", "alef", "teh", " ", "alef", "lam", "khah", "alef",
                      "teh", "meem", "teh_marbuta", ":", " ">>
STATS_TOTAL == <<"alef_with_hamza_below", "jeem", "meem", "alef", "lam", "yeh", " ", "alef",
                 "lam", "kaf", "lam", "meem", "alef", "teh", ":", " ">>
BY_WORD == <<"beh", "qaf", "lam", "meem", " ">>
STARS == <<"black_star", "black_star", "black_star">>
ORNAMENT_DEFAULT == <<"white_star">>
UNDERLINE_DEFAULT == "double_rule"
UNDERLINE_ENDING == "light_rule"
REQUIRED_CHAPTER_COUNT == 25

\* ------------------------------------------------------------------ numbers
Digit(d) == CASE d = 0 -> "0" [] d = 1 -> "1" [] d = 2 -> "2" [] d = 3 -> "3" [] d = 4 -> "4"
              [] d = 5 -> "5" [] d = 6 -> "6" [] d = 7 -> "7" [] d = 8 -> "8" [] d = 9 -> "9"

\* str(n) / f"{n}" for n >= 0
RECURSIVE Decimal(_)
Decimal(n) == IF n < 10 THEN <<Digit(n)>> ELSE Append(Decimal(n \div 10), Digit(n % 10))

\* f"{n:,}": decimal digits in groups of three
RECURSIVE Grouped(_)
Grouped(n) ==
    IF n < 1000 THEN Decimal(n)
    ELSE Grouped(n \div 1000) \o <<",">> \o
         <<Digit((n % 1000) \div 100), Digit((n % 100) \div 10), Digit(n % 10)>>

\* --------------------------------------------------------- section composer
\* mutant: a title too long for the width is cut to the width
CenterCut(s, width, fill) ==
    IF Len(s) >= width THEN SubSeq(s, 1, Max(width, 0))
    ELSE LET marg == width - Len(s)
             left == (marg \div 2) + (IF marg % 2 = 1 /\ width % 2 = 1 THEN 1 ELSE 0)
         IN  Repeat(fill, left) \o s \o Repeat(fill, marg - left)

\* str.center(width, fill): a string of width or more characters is returned as it
\* is; the odd padding character goes to the left when width is odd
Center(s, width, fill) ==
    IF Len(s) >= width THEN s
    ELSE LET marg == width - Len(s)
             left == (marg \div 2) + (IF marg % 2 = 1 /\ width % 2 = 1 THEN 1 ELSE 0)
         IN  Repeat(fill, left) \o s \o Repeat(fill, marg - left)

\* center_block, as the list of the lines of the block it returns
center_block(lines, width) == [i \in 1..Len(lines) |-> Center(Strip(lines[i]), width, SP)]

Ornamented(title, ornament) ==
    <<SP>> \o ornament \o <<SP>> \o Strip(title) \o <<SP>> \o ornament \o <<SP>>

section_header(title, width, underline, ornament) ==
    Center(Ornamented(title, ornament), width, underline)

ornamental_break(width, symbol) == center_block(<<symbol \o symbol \o symbol>>, width)

\* ------------------------------------------------------------- statistics
\* len(re.findall(r"\S+", text)): the maximal runs of non-whitespace
RECURSIVE word_count(_)
word_count(text) ==
    IF Len(text) = 0 THEN 0
    ELSE IF text[1] \in Whitespace THEN word_count(Tail(text))
    ELSE LET run == IF \E i \in 1..Len(text) : text[i] \in Whitespace
                    THEN (CHOOSE i \in 1..Len(text) :
                             /\ text[i] \in Whitespace
                             /\ \A j \in 1..(i - 1) : text[j] \notin Whitespace) - 1
                    ELSE Len(text)
         IN  1 + word_count(SubSeq(text, run + 1, Len(text)))

RECURSIVE SumWords(_)
SumWords(chapter_texts) ==
    IF Len(chapter_texts) = 0 THEN 0 ELSE word_count(chapter_texts[1]) + SumWords(Tail(chapter_texts))

\* mutant: the total leaves the conclusion out
total_words_no_conclusion(intro, chapter_texts, conclusion) ==
    word_count(intro) + SumWords(chapter_texts)

total_words(intro, chapter_texts, conclusion) ==
    word_count(intro) + word_count(conclusion) + SumWords(chapter_texts)

\* build_statistics, as the list of the lines of the block it returns
build_statistics(intro, chapter_texts, conclusion, width) ==
    LET lines == <<STATS_TITLE, <<>>, STATS_INTRO \o Grouped(word_count(intro))>>
                 \o [i \in 1..Len(chapter_texts) |->
                        STATS_CHAPTER \o Decimal(i) \o <<":", SP>> \o
                        Grouped(word_count(chapter_texts[i]))]
                 \o <<STATS_CONCLUSION \o Grouped(word_count(conclusion)),
                      <<>>,
                      STATS_TOTAL \o Grouped(total_words(intro, chapter_texts, conclusion))>>
    IN  center_block(lines, width)

\* -------------------------------------------------------- table of contents
TocEntry(number, label) == Decimal(number) \o <<".", SP>> \o label

ChapterTitle(idx) == CHAPTER_WORD \o <<SP>> \o Decimal(idx)

\* build_table_of_contents, as the list of the lines of the block it returns
build_table_of_contents(intro_title, conclusion_title, width) ==
    LET lines == <<TOC_TITLE, <<>>, TocEntry(1, intro_title)>>
                 \o [idx \in 1..REQUIRED_CHAPTER_COUNT |-> TocEntry(idx + 1, ChapterTitle(idx))]
                 \o <<TocEntry(REQUIRED_CHAPTER_COUNT + 2, conclusion_title)>>
    IN  center_block(lines, width)

\* ------------------------------------------------------------- title page
\* "\n\n".join(blocks), each block and the result as a list of lines
RECURSIVE JoinBlank(_)
JoinBlank(blocks) ==
    IF Len(blocks) = 0 THEN << <<>> >>
    ELSE IF Len(blocks) = 1 THEN blocks[1]
    ELSE blocks[1] \o << <<>> >> \o JoinBlank(Tail(blocks))

\* build_title_page, as the list of the lines of the text it returns; an absent
\* (None) or empty tagline or epigraph is the empty string
build_title_page(title, author, tagline, epigraph, width, ornament) ==
    LET title_lines == <<title>> \o (IF Len(tagline) > 0 THEN <<tagline>> ELSE <<>>)
                       \o <<BY_WORD \o author>>
        rule == <<section_header(STARS, width, UNDERLINE_DEFAULT, ornament)>>
        blocks == <<rule, center_block(title_lines, width), rule>>
        epigraph_block == ornamental_break(width, ornament)
                          \o center_block(<<epigraph>>, width)
                          \o ornamental_break(width, ornament)
    IN  JoinBlank(IF Len(epigraph) > 0 THEN Append(blocks, epigraph_block) ELSE blocks)

\* ------------------------------------------------------------ format_novel
\* mutant: the chapters are numbered from 0
ChapterSectionsFromZero(idx, chapter, cfg) ==
    << <<section_header(ChapterTitle(idx - 1), cfg.width, UNDERLINE_DEFAULT, cfg.ornament)>>,
       SplitNL(format_paragraphs(chapter, cfg.width, cfg.paragraph_indent, cfg.rtl_align,
                                 cfg.line_spacing)) >>

\* the two sections of one chapter: its header and its wrapped body
ChapterSections(idx, chapter, cfg) ==
    << <<section_header(ChapterTitle(idx), cfg.width, UNDERLINE_DEFAULT, cfg.ornament)>>,
       SplitNL(format_paragraphs(chapter, cfg.width, cfg.paragraph_indent, cfg.rtl_align,
                                 cfg.line_spacing)) >>

RECURSIVE AllChapterSections(_, _, _)
AllChapterSections(idx, chapter_texts, cfg) ==
    IF idx > Len(chapter_texts) THEN <<>>
    ELSE ChapterSections(idx, chapter_texts[idx], cfg) \o AllChapterSections(idx + 1, chapter_texts, cfg)

\* mutant: the statistics block is appended after the chapters
formatted_sections_stats_late(m, cfg) ==
    << build_title_page(m.title, m.author, m.tagline, m.epigraph, cfg.width, cfg.ornament),
       build_table_of_contents(INTRO_TITLE, CONCLUSION_TITLE, cfg.width),
       <<section_header(INTRO_TITLE, cfg.width, UNDERLINE_DEFAULT, cfg.ornament)>>,
       SplitNL(format_paragraphs(m.intro_text, cfg.width, cfg.paragraph_indent,
                                 cfg.rtl_align, cfg.line_spacing)) >>
    \o AllChapterSections(1, m.chapters, cfg)
    \o (IF cfg.include_stats
        THEN <<build_statistics(m.intro_text, m.chapters, m.conclusion_text, cfg.width)>>
        ELSE <<>>)
    \o << <<section_header(CONCLUSION_TITLE, cfg.width, UNDERLINE_DEFAULT, cfg.ornament)>>,
          SplitNL(format_paragraphs(m.conclusion_text, cfg.width, cfg.paragraph_indent,
                                    cfg.rtl_align, cfg.line_spacing)),
          <<section_header(ENDING_TITLE, cfg.width, UNDERLINE_ENDING, cfg.ornament)>>,
          center_block(<<CLOSING_WORD>>, cfg.width) >>

\* formatted_sections of format_novel: the sections in the order they are appended,
\* each the list of its lines
formatted_sections(m, cfg) ==
    << build_title_page(m.title, m.author, m.tagline, m.epigraph, cfg.width, cfg.ornament),
       build_table_of_contents(INTRO_TITLE, CONCLUSION_TITLE, cfg.width),
       <<section_header(INTRO_TITLE, cfg.width, UNDERLINE_DEFAULT, cfg.ornament)>>,
       SplitNL(format_paragraphs(m.intro_text, cfg.width, cfg.paragraph_indent,
                                 cfg.rtl_align, cfg.line_spacing)) >>
    \o (IF cfg.include_stats
        THEN <<build_statistics(m.intro_text, m.chapters, m.conclusion_text, cfg.width)>>
        ELSE <<>>)
    \o AllChapterSections(1, m.chapters, cfg)
    \o << <<section_header(CONCLUSION_TITLE, cfg.width, UNDERLINE_DEFAULT, cfg.ornament)>>,
          SplitNL(format_paragraphs(m.conclusion_text, cfg.width, cfg.paragraph_indent,
                                    cfg.rtl_align, cfg.line_spacing)),
          <<section_header(ENDING_TITLE, cfg.width, UNDERLINE_ENDING, cfg.ornament)>>,
          center_block(<<CLOSING_WORD>>, cfg.width) >>

\* format_novel: "\n\n".join(formatted_sections) + "\n", as the list of its lines
\* (the document split at every "\n": the final "\n" leaves an empty last line)
format_novel(m, cfg) == JoinBlank(formatted_sections(m, cfg)) \o << <<>> >>

\* --------------------------------------------------------- text normaliser
BOM == "bom"

\* read_text: content.lstrip(BOM).strip()
RECURSIVE LStripBom(_)
LStripBom(s) == IF Len(s) > 0 /\ s[1] = BOM THEN LStripBom(Tail(s)) ELSE s

read_text(content) == Strip(LStripBom(content))

\* re.sub(r"\n{3,}", "\n\n", text)
RECURSIVE CollapseBreaks(_, _)
CollapseBreaks(s, run) ==
    IF Len(s) = 0 THEN Repeat(NL, Min(run, 2))
    ELSE IF s[1] = NL THEN CollapseBreaks(Tail(s), run + 1)
    ELSE Repeat(NL, Min(run, 2)) \o <<s[1]>> \o CollapseBreaks(Tail(s), 0)

normalize_spacing(text) ==
    LET lines == SplitLines(CollapseBreaks(text, 0))
    IN  Join(<<NL>>, [i \in 1..Len(lines) |-> RStrip(lines[i])])

ARABIC_COMMA == "arabic_comma"
ARABIC_QUESTION == "arabic_question_mark"
ARABIC_SEMICOLON == "arabic_semicolon"
ELLIPSIS == "ellipsis"
RIGHT_DOUBLE_QUOTE == "right_double_quote"
RIGHT_SINGLE_QUOTE == "right_single_quote"
ArabicMarks == {ARABIC_COMMA, ARABIC_SEMICOLON, ARABIC_QUESTION, ELLIPSIS}

\* str.replace for the one-character keys of the replacements table
ReplaceChars(s) ==
    [i \in 1..Len(s) |->
        CASE s[i] = "," -> ARABIC_COMMA
          [] s[i] = "?" -> ARABIC_QUESTION
          [] s[i] = ";" -> ARABIC_SEMICOLON
          [] OTHER -> s[i]]

ReplaceQuotes(s) ==
    [i \in 1..Len(s) |->
        CASE s[i] = "dquote" -> RIGHT_DOUBLE_QUOTE
          [] s[i] = "'" -> RIGHT_SINGLE_QUOTE
          [] OTHER -> s[i]]

\* refined.replace("...", ellipsis)
RECURSIVE ReplaceDots(_)
ReplaceDots(s) ==
    IF Len(s) = 0 THEN <<>>
    ELSE IF Len(s) >= 3 /\ s[1] = "." /\ s[2] = "." /\ s[3] = "."
         THEN <<ELLIPSIS>> \o ReplaceDots(SubSeq(s, 4, Len(s)))
         ELSE <<s[1]>> \o ReplaceDots(Tail(s))

\* re.sub(r"\s+([marks])", r"\1", refined): whitespace before a mark is removed
RECURSIVE DropSpaceBeforeMarks(_, _)
DropSpaceBeforeMarks(s, held) ==
    IF Len(s) = 0 THEN held
    ELSE IF s[1] \in Whitespace THEN DropSpaceBeforeMarks(Tail(s), Append(held, s[1]))
    ELSE IF s[1] \in ArabicMarks THEN <<s[1]>> \o DropSpaceBeforeMarks(Tail(s), <<>>)
    ELSE held \o <<s[1]>> \o DropSpaceBeforeMarks(Tail(s), <<>>)

refine_arabic_punctuation(text) ==
    DropSpaceBeforeMarks(ReplaceQuotes(ReplaceDots(ReplaceChars(text))), <<>>)

\* ensure_not_empty: the text it returns; it raises when EmptyText(text)
EmptyText(text) == IsBlank(text)

ensure_not_empty(text) == refine_arabic_punctuation(normalize_spacing(text))

\* ------------------------------------------------------- natural_sort_key
Digits == {"0", "1", "2", "3", "4", "5", "6", "7", "8", "9"}

DigitValue(c) == CHOOSE d \in 0..9 : Digit(d) = c

\* int(chunk) of a run of digits
RECURSIVE IntOf(_)
IntOf(ds) == IF Len(ds) = 0 THEN 0 ELSE 10 * IntOf(SubSeq(ds, 1, Len(ds) - 1)) + DigitValue(ds[Len(ds)])

\* the characters of file names, in code point order
CharOrder == <<".", "0", "1", "2", "3", "4", "5", "6", "7", "8", "9", "C", "H", "a", "c", "d",
               "h", "m", "t", "x">>

Ord(c) == CHOOSE i \in 1..Len(CharOrder) : CharOrder[i] = c

LowerChar(c) == CASE c = "C" -> "c" [] c = "H" -> "h" [] OTHER -> c

Lower(s) == [i \in 1..Len(s) |-> LowerChar(s[i])]

\* PurePath.stem: the name without its last suffix
Stem(name) ==
    LET dots == {i \in 2..(Len(name) - 1) : name[i] = "."}
    IN  IF dots = {} THEN name
        ELSE SubSeq(name, 1, (CHOOSE i \in dots : \A j \in dots : j <= i) - 1)

\* re.split(r"(\d+)", stem) without its empty chunks: the maximal runs of digits
\* and of other characters
RECURSIVE DigitRuns(_, _)
DigitRuns(s, cur) ==
    IF Len(s) = 0 THEN (IF Len(cur) = 0 THEN <<>> ELSE <<cur>>)
    ELSE IF Len(cur) = 0 \/ ((cur[1] \in Digits) <=> (s[1] \in Digits))
         THEN DigitRuns(Tail(s), Append(cur, s[1]))
         ELSE <<cur>> \o DigitRuns(s, <<>>)

KeyPart(chunk) ==
    IF chunk[1] \in Digits THEN [isint |-> TRUE, int |-> IntOf(chunk), str |-> <<>>]
    ELSE [isint |-> FALSE, int |-> 0, str |-> Lower(chunk)]

\* mutant: the key is the lower-cased stem, compared as text
lexicographic_sort_key(path) == <<[isint |-> FALSE, int |-> 0, str |-> Lower(Stem(path))]>>

natural_sort_key(path) ==
    LET runs == DigitRuns(Stem(path), <<>>)
    IN  [i \in 1..Len(runs) |-> KeyPart(runs[i])]

\* str < str, by code points
StrLess(a, b) ==
    \E i \in 1..(Len(b)) :
        /\ \A j \in 1..(i - 1) : j <= Len(a) /\ a[j] = b[j]
        /\ \/ i = Len(a) + 1
           \/ i <= Len(a) /\ Ord(a[i]) < Ord(b[i])

\* list < list of Python: decided at the first position where the parts differ;
\* "error" is the TypeError of comparing an int with a str
KeyCompare(k1, k2) ==
    LET common == Min(Len(k1), Len(k2))
        diff == {i \in 1..common : k1[i] # k2[i]}
    IN  IF diff = {}
        THEN (IF Len(k1) < Len(k2) THEN "less" ELSE IF Len(k1) = Len(k2) THEN "equal" ELSE "greater")
        ELSE LET i == CHOOSE x \in diff : \A y \in diff : x <= y
             IN  IF k1[i].isint # k2[i].isint THEN "error"
                 ELSE IF k1[i].isint
                      THEN (IF k1[i].int < k2[i].int THEN "less" ELSE "greater")
                      ELSE (IF StrLess(k1[i].str, k2[i].str) THEN "less" ELSE "greater")

\* whether sorted(paths, key=natural_sort_key) raises TypeError (every list drawn
\* with two keys that do not compare has such a pair among the comparisons made)
SortRaises(paths) ==
    \E i, j \in 1..Len(paths) :
        KeyCompare(natural_sort_key(paths[i]), natural_sort_key(paths[j])) = "error"

\* insertion of path into a sorted list, after the paths with an equal key
RECURSIVE InsertSorted(_, _)
InsertSorted(path, sorted) ==
    IF Len(sorted) = 0 THEN <<path>>
    ELSE IF KeyCompare(natural_sort_key(path), natural_sort_key(sorted[1])) = "less"
         THEN <<path>> \o sorted
         ELSE <<sorted[1]>> \o InsertSorted(path, Tail(sorted))

\* sorted(chapter_paths, key=natural_sort_key): a stable sort
RECURSIVE SortedPaths(_)
SortedPaths(paths) ==
    IF Len(paths) = 0 THEN <<>>
    ELSE InsertSorted(paths[Len(paths)], SortedPaths(SubSeq(paths, 1, Len(paths) - 1)))

\* ------------------------------------------------------------------- main
NoRet == <<>>
NoError == [type |-> "none", template |-> "none", values |-> <<>>]
NoDocument == [some |-> FALSE, lines |-> <<>>]

\* a run of main has not started: the state of the one-function specifications
MainIdle ==
    /\ fs = [files |-> <<>>, listing |-> <<>>, dir_exists |-> FALSE, reportlab |-> FALSE]
    /\ chapter_paths = <<>>
    /\ intro_text = <<>>
    /\ chapters = <<>>
    /\ conclusion_text = <<>>
    /\ formatted = NoDocument
    /\ written = <<>>
    /\ error = NoError
    /\ log = <<>>

MainUnchanged ==
    UNCHANGED <<fs, chapter_paths, intro_text, chapters, conclusion_text, formatted, written,
                error, log>>

IntroPath == <<"i", "n", "t", "r", "o", ".", "t", "x", "t">>
ConclusionPath == <<"o", "u", "t", "r", "o", ".", "t", "x", "t">>

\* the file a path names; a name the file system does not hold is missing
FileAt(path) ==
    IF \E i \in 1..Len(fs.files) : fs.files[i].name = path
    THEN (CHOOSE f \in {fs.files[i] : i \in 1..Len(fs.files)} : f.name = path)
    ELSE [name |-> path, kind |-> "missing", content |-> <<>>]

\* path.exists() and path.is_file()
IsFile(path) == FileAt(path).kind = "file"

Raise(type, template, values) ==
    /\ error' = [type |-> type, template |-> template, values |-> values]
    /\ pc' = "failed"

Event(op, path) == [op |-> op, path |-> path]

\* mutant: the chapters are gathered before the introduction is read
StepAfterChaptersFirst(step) ==
    CASE step = "discover" -> "gather"
      [] step = "gather" -> "intro"
      [] step = "intro" -> "conclusion"
      [] step = "conclusion" -> "format"
      [] step = "format" -> "pdf"
      [] step = "pdf" -> "write"
      [] step = "write" -> "done"

\* the order of the statements of main: the step that follows a step that
\* neither raises nor returns
StepAfter(step) ==
    CASE step = "discover" -> "intro"
      [] step = "intro" -> "gather"
      [] step = "gather" -> "conclusion"
      [] step = "conclusion" -> "format"
      [] step = "format" -> "pdf"
      [] step = "pdf" -> "write"
      [] step = "write" -> "done"

\* main, lines 608-613: the chapter paths of the directory or of the command line
Discover ==
    /\ pc = "discover"
    /\ UNCHANGED <<args, ret, fs, intro_text, chapters, conclusion_text, formatted, written>>
    /\ IF args.chapters_dir
       THEN IF ~fs.dir_exists
            THEN /\ Raise("FileNotFoundError", "iterdir", <<>>)
                 /\ UNCHANGED <<chapter_paths, log>>
            ELSE LET found == SelectSeq(fs.listing, IsFile)
                 IN  /\ log' = log \o [i \in 1..Len(fs.listing) |-> Event("is_file", fs.listing[i])]
                     /\ chapter_paths' = found
                     /\ IF Len(found) = 0
                        THEN Raise("ValueError", "no files in the chapters directory", <<>>)
                        ELSE pc' = StepAfter("discover") /\ UNCHANGED error
       ELSE /\ chapter_paths' = args.chapters
            /\ pc' = StepAfter("discover")
            /\ UNCHANGED <<error, log>>

\* main, line 615: intro_text = ensure_not_empty(INTRO_TITLE, read_text(args.intro))
ReadIntro ==
    /\ pc = "intro"
    /\ UNCHANGED <<args, ret, fs, chapter_paths, chapters, conclusion_text, formatted, written,
                   log>>
    /\ IF ~IsFile(IntroPath)
       THEN Raise("FileNotFoundError", "open", <<IntroPath>>) /\ UNCHANGED intro_text
       ELSE LET text == read_text(FileAt(IntroPath).content)
            IN  IF EmptyText(text)
                THEN Raise("ValueError", "empty content", <<INTRO_TITLE>>) /\ UNCHANGED intro_text
                ELSE /\ intro_text' = ensure_not_empty(text)
                     /\ pc' = StepAfter("intro")
                     /\ UNCHANGED error

\* the chapter files read by the list comprehension of gather_chapters: all of
\* them, or those up to the first one that is empty
ReadUpTo(sorted_paths) ==
    LET empty == {i \in 1..Len(sorted_paths) : EmptyText(read_text(FileAt(sorted_paths[i]).content))}
    IN  IF empty = {} THEN Len(sorted_paths) ELSE CHOOSE i \in empty : \A j \in empty : i <= j

ReadEvents(sorted_paths, upto) ==
    [k \in 1..(2 * upto) |->
        IF k % 2 = 1 THEN Event("read", sorted_paths[(k + 1) \div 2])
        ELSE Event("validate", sorted_paths[k \div 2])]

\* mutant: only too few chapters are refused
CountTooSmall(sorted_paths) == Len(sorted_paths) < REQUIRED_CHAPTER_COUNT

\* the count check of gather_chapters
CountMismatch(sorted_paths) == Len(sorted_paths) # REQUIRED_CHAPTER_COUNT

\* main, line 616: chapters = gather_chapters(chapter_paths)
GatherChapters ==
    /\ pc = "gather"
    /\ UNCHANGED <<args, ret, fs, chapter_paths, intro_text, conclusion_text, formatted, written>>
    /\ IF SortRaises(chapter_paths)
       THEN /\ Raise("TypeError", "compare", <<>>)
            /\ log' = Append(log, Event("sort", <<>>))
            /\ UNCHANGED chapters
       ELSE
       \E sorted_paths \in {SortedPaths(chapter_paths)} :
       \E missing \in {SelectSeq(sorted_paths, LAMBDA path : ~IsFile(path))} :
       \E read \in {ReadUpTo(sorted_paths)} :
       LET checks == <<Event("sort", <<>>)>>
                     \o [i \in 1..Len(sorted_paths) |-> Event("exists", sorted_paths[i])]
       IN  IF Len(missing) > 0
           THEN /\ Raise("FileNotFoundError", "chapter file missing or not a file", missing)
                /\ log' = log \o checks
                /\ UNCHANGED chapters
           ELSE IF CountMismatch(sorted_paths)
           THEN /\ Raise("ValueError", "expected and received counts",
                         <<Decimal(REQUIRED_CHAPTER_COUNT), Decimal(Len(sorted_paths))>>)
                /\ log' = log \o checks \o <<Event("count", <<>>)>>
                /\ UNCHANGED chapters
           ELSE /\ log' = log \o checks \o <<Event("count", <<>>)>> \o ReadEvents(sorted_paths, read)
                /\ IF EmptyText(read_text(FileAt(sorted_paths[read]).content))
                   THEN /\ Raise("ValueError", "empty content", <<sorted_paths[read]>>)
                        /\ UNCHANGED chapters
                   ELSE /\ chapters' = [i \in 1..Len(sorted_paths) |->
                                           ensure_not_empty(read_text(FileAt(sorted_paths[i]).content))]
                        /\ pc' = StepAfter("gather")
                        /\ UNCHANGED error

\* main, line 617
ReadConclusion ==
    /\ pc = "conclusion"
    /\ UNCHANGED <<args, ret, fs, chapter_paths, intro_text, chapters, formatted, written, log>>
    /\ IF ~IsFile(ConclusionPath)
       THEN Raise("FileNotFoundError", "open", <<ConclusionPath>>) /\ UNCHANGED conclusion_text
       ELSE LET text == read_text(FileAt(ConclusionPath).content)
            IN  IF EmptyText(text)
                THEN /\ Raise("ValueError", "empty content", <<CONCLUSION_TITLE>>)
                     /\ UNCHANGED conclusion_text
                ELSE /\ conclusion_text' = ensure_not_empty(text)
                     /\ pc' = StepAfter("conclusion")
                     /\ UNCHANGED error

Manuscript ==
    [title |-> args.title, author |-> args.author, tagline |-> args.tagline,
     epigraph |-> refine_arabic_punctuation(args.epigraph),
     intro_text |-> intro_text, chapters |-> chapters, conclusion_text |-> conclusion_text]

\* mutant: the flat document is built only when it is asked to be kept
BuildsFlatOnlyIfKept(export_pdf, keep_markdown) == keep_markdown

\* the condition of main, line 621: the flat document is built
BuildsFlat(export_pdf, keep_markdown) == ~export_pdf \/ keep_markdown

\* main, lines 619-638
FormatFlat ==
    /\ pc = "format"
    /\ \E m \in {Manuscript} :
           formatted' = IF BuildsFlat(args.export_pdf, args.keep_markdown)
                        THEN [some |-> TRUE, lines |-> format_novel(m, args.cfg)]
                        ELSE NoDocument
    /\ pc' = StepAfter("format")
    /\ UNCHANGED <<args, ret, fs, chapter_paths, intro_text, chapters, conclusion_text, written,
                   error, log>>

\* mutant: the missing module is found only when the document is built, after
\* the output file has been opened
create_pdf_late_import(has_reportlab, outputs) ==
    [raised |-> ~has_reportlab, outputs |-> Append(outputs, "pdf")]

\* create_pdf: ensure_module("reportlab") is its first statement, doc.build, which
\* writes the PDF, its last
create_pdf(has_reportlab, outputs) ==
    IF ~has_reportlab THEN [raised |-> TRUE, outputs |-> outputs]
    ELSE [raised |-> FALSE, outputs |-> Append(outputs, "pdf")]

\* main, lines 640-662
ExportPdf ==
    /\ pc = "pdf"
    /\ UNCHANGED <<args, ret, fs, chapter_paths, intro_text, chapters, conclusion_text, formatted,
                   log>>
    /\ IF args.export_pdf
       THEN LET pdf == create_pdf(fs.reportlab, written)
            IN  /\ written' = pdf.outputs
                /\ IF pdf.raised
                   THEN Raise("ImportError", "reportlab", <<>>)
                   ELSE /\ pc' = IF ~args.keep_markdown THEN "done" ELSE StepAfter("pdf")
                        /\ UNCHANGED error
       ELSE pc' = StepAfter("pdf") /\ UNCHANGED <<written, error>>

\* main, lines 664-667
WriteFlat ==
    /\ pc = "write"
    /\ written' = IF formatted.some THEN Append(written, "md") ELSE written
    /\ pc' = StepAfter("write")
    /\ UNCHANGED <<args, ret, fs, chapter_paths, intro_text, chapters, conclusion_text, formatted,
                   error, log>>

NextMain ==
    \/ Discover
    \/ ReadIntro
    \/ GatherChapters
    \/ ReadConclusion
    \/ FormatFlat
    \/ ExportPdf
    \/ WriteFlat

\* ------------------------------------------------------ the runs of main
LINE_WIDTH_DEFAULT == 84
PARAGRAPH_INDENT_DEFAULT == 0

TXT == <<".", "t", "x", "t">>
MD == <<".", "m", "d">>

\* how the chapter files are named: "c" is c1.txt, c2.txt, ...; "ch" is ch91.md,
\* Ch92.md, ... (the tens and the hundreds, two letter cases); "mixed" is 1a.txt,
\* a2.txt, ..., whose keys start with an int or with a str
Schemes == {"c", "ch", "mixed"}

ChapterName(scheme, k) ==
    CASE scheme = "c" -> <<"c">> \o Decimal(k) \o TXT
      [] scheme = "ch" -> (IF k % 2 = 0 THEN <<"C", "h">> ELSE <<"c", "h">>) \o Decimal(k + 90) \o MD
      [] scheme = "mixed" -> (IF k % 2 = 1 THEN Decimal(k) \o <<"a">> ELSE <<"a">> \o Decimal(k)) \o TXT

GoodTexts == << <<"a", SP, "b">>,
                <<BOM, "a", "b", SP, NL, NL, NL, "b", SP, ",", "a", "?", NL>>,
                <<SP, "a", ".", ".", ".", SP, SP, NL, NL, "b", ";", SP, "a", "a", "a", "a">> >>

BlankText == <<SP, NL, SP>>

\* the text of chapter file k: one of the good texts, then the number of the file
ChapterContent(k) == GoodTexts[(k % Len(GoodTexts)) + 1] \o <<SP, "n">> \o Decimal(k)

\* the orders in which the paths are supplied or listed: a rotation and a scramble
Orders == {[p |-> 1, o |-> 0], [p |-> 7, o |-> 11]}

Supplied(n, order) == [i \in 1..n |-> ((i * order.p + order.o) % n) + 1]

ChapterCounts == {0, 1, REQUIRED_CHAPTER_COUNT - 1, REQUIRED_CHAPTER_COUNT,
                  REQUIRED_CHAPTER_COUNT + 1}

\* what is wrong with the chapter files, and which file it is
Defects == {"none", "missing", "directory", "blank", "nodir"}

DefectAt(n) == Min(3, n)

ChapterFile(scheme, k, n, defect) ==
    [name |-> ChapterName(scheme, k),
     kind |-> IF k = DefectAt(n) /\ defect = "missing" THEN "missing"
              ELSE IF k = DefectAt(n) /\ defect = "directory" THEN "directory"
              ELSE "file",
     content |-> IF k = DefectAt(n) /\ defect = "blank" THEN BlankText
                 ELSE IF k = DefectAt(n) /\ defect \in {"missing", "directory"} THEN <<>>
                 ELSE ChapterContent(k)]

SourceFile(path, state) ==
    [name |-> path,
     kind |-> IF state = "missing" THEN "missing" ELSE "file",
     content |-> CASE state = "missing" -> <<>>
                   [] state = "blank" -> BlankText
                   [] state = "good" -> GoodTexts[2]]

DefaultConfig ==
    [width |-> LINE_WIDTH_DEFAULT, paragraph_indent |-> PARAGRAPH_INDENT_DEFAULT,
     include_stats |-> FALSE, rtl_align |-> FALSE, line_spacing |-> 1,
     ornament |-> ORNAMENT_DEFAULT]

Presentations ==
    { [cfg |-> DefaultConfig, tagline |-> <<>>, epigraph |-> <<>>],
      [cfg |-> [width |-> 12, paragraph_indent |-> 2, include_stats |-> TRUE,
                rtl_align |-> TRUE, line_spacing |-> 2, ornament |-> <<"*">>],
       tagline |-> <<"g">>, epigraph |-> <<"e", SP, ",", "e">>],
      [cfg |-> [width |-> 30, paragraph_indent |-> 0, include_stats |-> TRUE,
                rtl_align |-> FALSE, line_spacing |-> 1, ornament |-> ORNAMENT_DEFAULT],
       tagline |-> <<"g">>, epigraph |-> <<>>] }

Scenarios ==
    {sc \in [dir : BOOLEAN, scheme : Schemes, count : ChapterCounts, order : Orders,
             defect : Defects, intro : {"missing", "blank", "good"},
             conclusion : {"missing", "blank", "good"}, export_pdf : BOOLEAN,
             keep_markdown : BOOLEAN, reportlab : BOOLEAN, show : Presentations] :
        \* --chapter is given at least once; a listed file exists; a directory that
        \* does not exist lists nothing
        /\ ~sc.dir => sc.count >= 1 /\ sc.defect # "nodir"
        /\ sc.dir => sc.defect # "missing"
        /\ sc.count = 0 => sc.defect \in {"none", "nodir"}
        \* what a run never reads is left at its default: the missing module when no
        \* PDF is asked for, the conclusion and the layout when the chapters fail
        /\ ~sc.export_pdf => sc.reportlab
        /\ (sc.conclusion # "good" \/ sc.show.cfg # DefaultConfig) =>
               /\ sc.intro = "good"
               /\ sc.count = REQUIRED_CHAPTER_COUNT /\ sc.defect = "none" /\ sc.scheme # "mixed"
        /\ sc.show.cfg # DefaultConfig => sc.conclusion = "good"}

InitMain ==
    \E sc \in Scenarios :
        LET names == [i \in 1..sc.count |-> ChapterName(sc.scheme, Supplied(sc.count, sc.order)[i])]
        IN  /\ pc = "discover"
            /\ args = [fn |-> "main", chapters_dir |-> sc.dir,
                       chapters |-> IF sc.dir THEN <<>> ELSE names,
                       export_pdf |-> sc.export_pdf, keep_markdown |-> sc.keep_markdown,
                       cfg |-> sc.show.cfg, title |-> <<"T", "t">>, author |-> <<"A", "u">>,
                       tagline |-> sc.show.tagline, epigraph |-> sc.show.epigraph]
            /\ ret = NoRet
            /\ fs = [files |-> [k \in 1..sc.count |->
                                   ChapterFile(sc.scheme, k, sc.count, sc.defect)]
                               \o <<SourceFile(IntroPath, sc.intro),
                                    SourceFile(ConclusionPath, sc.conclusion)>>,
                     listing |-> IF sc.dir /\ sc.defect # "nodir" THEN names ELSE <<>>,
                     dir_exists |-> sc.dir /\ sc.defect # "nodir",
                     reportlab |-> sc.reportlab]
            /\ chapter_paths = <<>>
            /\ intro_text = <<>>
            /\ chapters = <<>>
            /\ conclusion_text = <<>>
            /\ formatted = NoDocument
            /\ written = <<>>
            /\ error = NoError
            /\ log = <<>>

SpecMain == InitMain /\ [][NextMain]_vars

\* ------------------------------------------- inputs of the pure functions
Alphabet == {"a", "b", SP, NL}

RECURSIVE TextsUpTo(_)
TextsUpTo(n) ==
    IF n = 0 THEN {<<>>}
    ELSE LET shorter == TextsUpTo(n - 1)
         IN  shorter \cup {Append(t, c) : t \in {s \in shorter : Len(s) = n - 1}, c \in Alphabet}

Widths == 1..4
Indents == 0..2
Spacings == 1..3

InitWrap ==
    /\ pc = "call"
    /\ args \in [fn : {"format_paragraphs"}, text : TextsUpTo(MaxTextLen), width : Widths,
                 indent : Indents, rtl_align : BOOLEAN, line_spacing : Spacings]
    /\ ret = NoRet
    /\ MainIdle

CallFormatParagraphs ==
    /\ pc = "call"
    /\ args.fn = "format_paragraphs"
    /\ ret' = format_paragraphs(args.text, args.width, args.indent, args.rtl_align,
                                args.line_spacing)
    /\ pc' = "returned"
    /\ UNCHANGED args
    /\ MainUnchanged

NextWrap == CallFormatParagraphs

SpecWrap == InitWrap /\ [][NextWrap]_vars

Intro == <<"I", "n", "t", "r", "o">>

MaxHeaderWidth == 24

HeaderTitles == {Intro, <<>>, <<"a">>, <<SP, "a", SP, "b", SP>>, <<"a", NL, "b">>,
                 <<"a", "b", "a", "b", "a", "b", "a", "b", "a", "b", "a", "b">>}
HeaderOrnaments == {ORNAMENT_DEFAULT, <<>>, <<"*">>, <<"*", "*", "*">>}
HeaderUnderlines == {UNDERLINE_DEFAULT, UNDERLINE_ENDING}

InitHeader ==
    /\ pc = "call"
    /\ args \in [fn : {"section_header"}, title : HeaderTitles, width : 0..MaxHeaderWidth,
                 underline : HeaderUnderlines, ornament : HeaderOrnaments]
    /\ ret = NoRet
    /\ MainIdle

CallSectionHeader ==
    /\ pc = "call"
    /\ args.fn = "section_header"
    /\ ret' = section_header(args.title, args.width, args.underline, args.ornament)
    /\ pc' = "returned"
    /\ UNCHANGED args
    /\ MainUnchanged

NextHeader == CallSectionHeader

SpecHeader == InitHeader /\ [][NextHeader]_vars

MaxStatChapters == 2

StatTexts == {<<"a", SP, "b">>, <<"c", SP, "d", SP, "e">>, <<"f">>, <<>>,
              <<SP, "a", ",", SP, SP, "b", NL, NL, "c", "d", NL>>}
StatWidths == {0, 30}

RECURSIVE SeqsUpTo(_, _)
SeqsUpTo(S, n) ==
    IF n = 0 THEN {<<>>}
    ELSE LET shorter == SeqsUpTo(S, n - 1)
         IN  shorter \cup {Append(t, x) : t \in {q \in shorter : Len(q) = n - 1}, x \in S}

InitStats ==
    /\ pc = "call"
    /\ args \in [fn : {"build_statistics"}, intro_text : StatTexts,
                 chapters : SeqsUpTo(StatTexts, MaxStatChapters), conclusion_text : StatTexts,
                 width : StatWidths]
    /\ ret = NoRet
    /\ MainIdle

CallBuildStatistics ==
    /\ pc = "call"
    /\ args.fn = "build_statistics"
    /\ ret' = build_statistics(args.intro_text, args.chapters, args.conclusion_text, args.width)
    /\ pc' = "returned"
    /\ UNCHANGED args
    /\ MainUnchanged

NextStats == CallBuildStatistics

SpecStats == InitStats /\ [][NextStats]_vars

InitNormalize ==
    /\ pc = "call"
    /\ args \in [fn : {"normalize_spacing"}, text : TextsUpTo(MaxTextLen)]
    /\ ret = NoRet
    /\ MainIdle

CallNormalizeSpacing ==
    /\ pc = "call"
    /\ args.fn = "normalize_spacing"
    /\ ret' = normalize_spacing(args.text)
    /\ pc' = "returned"
    /\ UNCHANGED args
    /\ MainUnchanged

NextNormalize == CallNormalizeSpacing

SpecNormalize == InitNormalize /\ [][NextNormalize]_vars

\* ------------------------------------------------- vocabulary of the properties
\* the whitespace-delimited tokens of a text
Tokens(text) == {c \in {Chunks(Munge(text), <<>>)[i] : i \in 1..Len(Chunks(Munge(text), <<>>))} :
                    ~IsBlank(c)}

Contains(line, tok) ==
    \E i \in 0..(Len(line) - Len(tok)) : SubSeq(line, i + 1, i + Len(tok)) = tok

IsNonWS(c) == c \notin Whitespace
NonWS(s) == SelectSeq(s, IsNonWS)

OutLines(s) == {SplitNL(s)[i] : i \in 1..Len(SplitNL(s))}

WrapReturned == pc = "returned" /\ args.fn = "format_paragraphs"

LongTokens == {tok \in Tokens(args.text) : Len(tok) > args.width}


\* the operations on chapter paths that the run has made so far
LogOps == {log[i].op : i \in 1..Len(log)}

\* the operations of gather_chapters
GatherOps == {"sort", "exists", "count", "read", "validate"}

GatherRan == "sort" \in LogOps

ChaptersGathered == Len(chapters) > 0

IsDigit(c) == c \in Digits
DigitsOf(s) == SelectSeq(s, IsDigit)
LettersOf(s) == SelectSeq(s, LAMBDA c : c \notin Digits)

\* ---------------------------------------------------------------------- C1
ChapterHeaderAt(line, ornament) ==
    Contains(line, ornament \o <<SP>> \o CHAPTER_WORD \o <<SP>>)

HeaderOf(line, i, ornament) ==
    Contains(line, ornament \o <<SP>> \o CHAPTER_WORD \o <<SP>> \o Decimal(i) \o <<SP>> \o ornament)

\* C1: a document built from a manuscript with exactly 25 chapters holds exactly
\* 25 chapter header lines, those of chapters 1..25 in this order; each is
\* followed, after the blank line that separates sections, by the wrapped body of
\* the chapter at the same position, and an earlier line is its table-of-contents
\* entry, numbered i + 1.
C1_ChapterHeaders ==
    (formatted.some /\ Len(chapters) = REQUIRED_CHAPTER_COUNT) =>
        \E lines \in {formatted.lines} :
        \E heads \in {{k \in 1..Len(lines) : ChapterHeaderAt(lines[k], args.cfg.ornament)}} :
        \E bodies \in {[i \in 1..Len(chapters) |->
                           SplitNL(format_paragraphs(chapters[i], args.cfg.width,
                                                     args.cfg.paragraph_indent,
                                                     args.cfg.rtl_align,
                                                     args.cfg.line_spacing))]} :
            /\ Cardinality(heads) = REQUIRED_CHAPTER_COUNT
            /\ \A i \in 1..REQUIRED_CHAPTER_COUNT :
                   \E k \in heads :
                       /\ HeaderOf(lines[k], i, args.cfg.ornament)
                       /\ Cardinality({h \in heads : h < k}) = i - 1
                       /\ lines[k + 1] = <<>>
                       /\ SubSeq(lines, k + 2, k + 1 + Len(bodies[i])) = bodies[i]
                       /\ lines[k + 2 + Len(bodies[i])] = <<>>
                       /\ \E t \in 1..(k - 1) :
                              Strip(lines[t]) = Decimal(i + 1) \o <<".", SP>> \o CHAPTER_WORD
                                                \o <<SP>> \o Decimal(i)

C1_Witness ==
    /\ pc = "done" /\ formatted.some /\ written = <<"md">>
    /\ Len(chapters) = REQUIRED_CHAPTER_COUNT
    /\ args.cfg.include_stats /\ args.cfg.rtl_align

\* ---------------------------------------------------------------------- C2
MissingPaths == {chapter_paths[i] : i \in {j \in 1..Len(chapter_paths) : ~IsFile(chapter_paths[j])}}

CountError ==
    [type |-> "ValueError", template |-> "expected and received counts",
     values |-> <<Decimal(REQUIRED_CHAPTER_COUNT), Decimal(Len(chapter_paths))>>]

\* C2 as stated: whenever gather_chapters runs on a number of paths other than
\* 25, it fails with the count-mismatch error, whose values are the two counts,
\* and no chapter file is read or validated.
C2_CountMismatchAlways ==
    (GatherRan /\ Len(chapter_paths) # REQUIRED_CHAPTER_COUNT) =>
        /\ pc = "failed"
        /\ error = CountError
        /\ LogOps \cap {"read", "validate"} = {}

\* C2 amended: whenever gather_chapters runs on a number of paths other than 25, it
\* fails before any chapter file is read or validated; the error is the
\* count-mismatch error, whose values are the two counts only, when every path is
\* an existing regular file and the sort keys compare; it is the not-found error
\* listing the missing paths when some path is no regular file; it is the
\* TypeError of the sort when two keys do not compare.
C2_CountMismatch ==
    (GatherRan /\ Len(chapter_paths) # REQUIRED_CHAPTER_COUNT) =>
        /\ pc = "failed"
        /\ LogOps \cap {"read", "validate"} = {}
        /\ IF SortRaises(chapter_paths)
           THEN error.type = "TypeError" /\ LogOps \cap {"exists", "count"} = {}
           ELSE IF MissingPaths # {}
           THEN /\ error.type = "FileNotFoundError"
                /\ error.template = "chapter file missing or not a file"
                /\ {error.values[i] : i \in 1..Len(error.values)} = MissingPaths
                /\ "count" \notin LogOps
           ELSE error = CountError

C2_Witness ==
    /\ GatherRan /\ pc = "failed"
    /\ Len(chapter_paths) = REQUIRED_CHAPTER_COUNT + 1
    /\ error = CountError
    /\ error.values = << <<"2", "5">>, <<"2", "6">> >>

\* ---------------------------------------------------------------------- C3
\* C3: when a run of main has failed, with whatever error, nothing has been
\* written: neither the flat file nor the PDF.
C3_NoOutputOnError ==
    pc = "failed" =>
        /\ error.type \in {"FileNotFoundError", "ValueError", "ImportError", "TypeError"}
        /\ written = <<>>

C3_Witness ==
    /\ pc = "failed" /\ error.type = "ImportError"
    /\ args.export_pdf /\ args.keep_markdown /\ formatted.some
    /\ written = <<>>

\* ---------------------------------------------------------------------- C4
IntroBlank == IsFile(IntroPath) /\ IsBlank(FileAt(IntroPath).content)

IntroError == [type |-> "ValueError", template |-> "empty content", values |-> <<INTRO_TITLE>>]

\* C4 as stated: with a blank introduction, whatever the chapter inputs, the run
\* fails at the introduction with the error that names it, and no chapter path
\* has been sorted, existence-checked, counted or read.
C4_IntroAlwaysFirst ==
    (IntroBlank /\ pc \notin {"discover", "intro"}) =>
        /\ pc = "failed"
        /\ error = IntroError
        /\ LogOps \cap GatherOps = {}

\* C4 amended: with a blank introduction, a run whose chapter paths are given on
\* the command line, or whose chapter directory exists and holds a regular file,
\* fails at the introduction with the error that names it, before gather_chapters
\* starts; a run whose chapter directory is missing or holds no regular file has
\* failed with that error before the introduction is read.
C4_IntroFirst ==
    (IntroBlank /\ pc \notin {"discover", "intro"}) =>
        /\ pc = "failed"
        /\ LogOps \cap GatherOps = {}
        /\ IF args.chapters_dir /\ SelectSeq(fs.listing, IsFile) = <<>>
           THEN /\ error.template = IF fs.dir_exists THEN "no files in the chapters directory"
                                    ELSE "iterdir"
                /\ intro_text = <<>>
           ELSE error = IntroError

C4_Witness ==
    /\ IntroBlank /\ pc = "failed" /\ error = IntroError
    /\ args.chapters_dir
    /\ Len(chapter_paths) = REQUIRED_CHAPTER_COUNT - 1
    /\ LogOps = {"is_file"}

\* ---------------------------------------------------------------------- C5
\* C5: a run of main that succeeds has written the flat file alone when no PDF
\* was asked for (whether or not the flat file was asked to be kept), the PDF
\* alone when the PDF was asked for and the flat file was not asked to be kept,
\* and both when both were asked for; so it has written at least one of them.
C5_Artifacts ==
    pc = "done" =>
        /\ written # <<>>
        /\ ~args.export_pdf => written = <<"md">>
        /\ (args.export_pdf /\ ~args.keep_markdown) => written = <<"pdf">>
        /\ (args.export_pdf /\ args.keep_markdown) => written = <<"pdf", "md">>

C5_Witness ==
    /\ pc = "done"
    /\ args.export_pdf /\ args.keep_markdown
    /\ written = <<"pdf", "md">>

\* ------------------------------------------------------------------ C6, C7
\* C6 as stated: every token longer than width appears whole on one line of the
\* output of format_paragraphs.
C6_LongTokenWhole ==
    WrapReturned => \A tok \in LongTokens : \E line \in OutLines(ret) : Contains(line, tok)

\* a run of C6: a text with a token longer than width has been wrapped
C6_Witness ==
    /\ WrapReturned /\ LongTokens # {} /\ args.indent < args.width
    /\ \A line \in OutLines(ret) : Len(line) <= args.width
    /\ NonWS(ret) = NonWS(args.text)

\* C7 as stated: format_paragraphs applied to its own output, with the same
\* width, indent, alignment and spacing, returns that output unchanged.
C7_Idempotent ==
    WrapReturned =>
        format_paragraphs(ret, args.width, args.indent, args.rtl_align, args.line_spacing) = ret


\* ---------------------------------------------------------------------- C8
HeaderReturned == pc = "returned" /\ args.fn = "section_header"

\* the length of the title between its two ornaments: " o title o "
OrnamentedLen == Len(Strip(args.title)) + 2 * Len(args.ornament) + 4

\* C8 as stated: the header that section_header returns is width characters
\* long, whatever the title, the ornament and the width.
C8_LengthIsWidth ==
    HeaderReturned => Len(ret) = args.width

\* C8 amended: the header is as long as the larger of width and the ornamented
\* title: exactly width when the ornamented title fits in width, and the
\* ornamented title itself, longer than width and not cut, when it does not; it is
\* one line when the title and the ornament hold no line break.
C8_LengthIsMax ==
    HeaderReturned =>
        /\ Len(ret) = Max(args.width, OrnamentedLen)
        /\ OrnamentedLen > args.width =>
               ret = <<SP>> \o args.ornament \o <<SP>> \o Strip(args.title) \o <<SP>>
                     \o args.ornament \o <<SP>>
        /\ (NL \notin {args.title[i] : i \in 1..Len(args.title)}) => Len(SplitNL(ret)) = 1

C8_Witness ==
    /\ HeaderReturned
    /\ args.title = Intro /\ args.width = 5 /\ args.ornament = ORNAMENT_DEFAULT
    /\ Len(ret) = 11

\* ---------------------------------------------------------------------- C9
StatsReturned == pc = "returned" /\ args.fn = "build_statistics"

\* the number of maximal whitespace-free tokens of a text: the positions where
\* one starts
TokenCount(text) ==
    Cardinality({i \in 1..Len(text) :
                    /\ text[i] \notin Whitespace
                    /\ (i = 1 \/ text[i - 1] \in Whitespace)})

\* the number a line of the block reports: the digits after its colon
ReportedNumber(line) ==
    LET colon == CHOOSE i \in 1..Len(line) : line[i] = ":"
    IN  IntOf(DigitsOf(SubSeq(line, colon + 1, Len(line))))

ReportLines(block) == SelectSeq(block, LAMBDA line : \E i \in 1..Len(line) : line[i] = ":")

RECURSIVE SumSeq(_)
SumSeq(ns) == IF Len(ns) = 0 THEN 0 ELSE ns[1] + SumSeq(Tail(ns))

\* C9: the last number that build_statistics reports, the total, is the sum of
\* the numbers it reports on the lines before, which are the token counts of the
\* introduction, of every chapter in order and of the conclusion.
C9_TotalIsSum ==
    StatsReturned =>
        LET reported == [i \in 1..Len(ReportLines(ret)) |-> ReportedNumber(ReportLines(ret)[i])]
            n == Len(args.chapters)
        IN  /\ Len(reported) = n + 3
            /\ reported[1] = TokenCount(args.intro_text)
            /\ \A i \in 1..n : reported[i + 1] = TokenCount(args.chapters[i])
            /\ reported[n + 2] = TokenCount(args.conclusion_text)
            /\ reported[n + 3] = SumSeq(SubSeq(reported, 1, n + 2))

C9_Witness ==
    /\ StatsReturned
    /\ args.intro_text = <<"a", SP, "b">>
    /\ args.chapters = << <<"c", SP, "d", SP, "e">> >>
    /\ args.conclusion_text = <<"f">>
    /\ ReportedNumber(ret[Len(ret)]) = 6

\* --------------------------------------------------------------------- C10
\* the number a chapter file name carries
NumberIn(path) == IntOf(DigitsOf(Stem(path)))

\* the stems are one textual prefix, the same up to letter case, and a number
NumberedStems ==
    \A i \in 1..Len(chapter_paths) :
        LET stem == Stem(chapter_paths[i])
        IN  /\ stem = LettersOf(stem) \o DigitsOf(stem)
            /\ Len(LettersOf(stem)) > 0 /\ Len(DigitsOf(stem)) > 0
            /\ Lower(LettersOf(stem)) = Lower(LettersOf(Stem(chapter_paths[1])))

\* C10: when the stems of the chapter paths are a shared prefix and a number,
\* the texts gather_chapters returns are in increasing order of that number,
\* whatever the order of the paths: text i is that of the path with i - 1 smaller
\* numbers among the paths.
C10_NumericOrder ==
    (ChaptersGathered /\ NumberedStems) =>
        \E rank \in {[j \in 1..Len(chapter_paths) |->
                         Cardinality({k \in 1..Len(chapter_paths) :
                                         NumberIn(chapter_paths[k]) < NumberIn(chapter_paths[j])})]} :
            \A i \in 1..Len(chapters) :
                \E j \in 1..Len(chapter_paths) :
                    /\ rank[j] = i - 1
                    /\ chapters[i] = ensure_not_empty(read_text(FileAt(chapter_paths[j]).content))

C10_Witness ==
    /\ ChaptersGathered /\ NumberedStems
    /\ ~args.chapters_dir
    /\ NumberIn(chapter_paths[1]) > NumberIn(chapter_paths[Len(chapter_paths)])
    /\ chapter_paths[1] = <<"c", "2", ".", "t", "x", "t">>

\* --------------------------------------------------------------------- C11
\* a header line of the title: the title between two ornaments
TitledLine(line, title, ornament) ==
    Contains(line, ornament \o <<SP>> \o title \o <<SP>> \o ornament)

\* the lines of the document that are the given text, centred
LinesThatRead(lines, text) == {k \in 1..Len(lines) : Strip(lines[k]) = text}

\* the lines of the document that are the header of the given title
HeadersOf(lines, title) ==
    {k \in 1..Len(lines) : TitledLine(lines[k], title, args.cfg.ornament)}

\* the number of lines of a wrapped body
BodyLen(text) ==
    Len(SplitNL(format_paragraphs(text, args.cfg.width, args.cfg.paragraph_indent,
                                  args.cfg.rtl_align, args.cfg.line_spacing)))

\* C11: the document starts with the title block, then come the table of
\* contents, the introduction header and body, the statistics block if and only
\* if include_stats is set, the chapter headers and bodies 1..25, the conclusion
\* header and body, the ending header and the closing word; every section starts
\* right after one blank line that follows the section before it, the statistics
\* block right after the introduction body and right before the first chapter
\* header; the document ends with the closing word and one line break.
C11_SectionOrder ==
    (formatted.some /\ Len(chapters) = REQUIRED_CHAPTER_COUNT) =>
        \E lines \in {formatted.lines} :
        \E toc \in {LinesThatRead(lines, TOC_TITLE)} :
        \E intro \in {HeadersOf(lines, INTRO_TITLE)} :
        \E stats \in {LinesThatRead(lines, STATS_TITLE)} :
        \E concl \in {HeadersOf(lines, CONCLUSION_TITLE)} :
        \E ending \in {HeadersOf(lines, ENDING_TITLE)} :
        \E first \in {{k \in 1..Len(lines) : HeaderOf(lines[k], 1, args.cfg.ornament)}} :
        \E last \in {{k \in 1..Len(lines) :
                         HeaderOf(lines[k], REQUIRED_CHAPTER_COUNT, args.cfg.ornament)}} :
            /\ TitledLine(lines[1], STARS, args.cfg.ornament)
            /\ Cardinality(toc) = 1 /\ Cardinality(intro) = 1
            /\ Cardinality(first) = 1 /\ Cardinality(last) = 1
            /\ Cardinality(concl) = 1 /\ Cardinality(ending) = 1
            /\ Cardinality(stats) = IF args.cfg.include_stats THEN 1 ELSE 0
            /\ \A t \in toc : \A i \in intro : \A f \in first :
                   /\ t > 2 /\ lines[t - 1] = <<>> /\ lines[t - 2] # <<>>
                   \* the table of contents: its title, a blank line, 27 entries
                   /\ i = t + REQUIRED_CHAPTER_COUNT + 4 + 1
                   /\ lines[i - 1] = <<>> /\ lines[i + 1] = <<>>
                   /\ IF args.cfg.include_stats
                      THEN \A st \in stats :
                               /\ st = i + 2 + BodyLen(intro_text) + 1
                               /\ lines[st - 1] = <<>>
                               \* the block: its title, a blank line, 27 counts, a
                               \* blank line, the total
                               /\ f = st + REQUIRED_CHAPTER_COUNT + 6 + 1
                      ELSE f = i + 2 + BodyLen(intro_text) + 1
                   /\ lines[f - 1] = <<>>
            /\ \A l \in last : \A c \in concl : \A e \in ending :
                   /\ c = l + 2 + BodyLen(chapters[REQUIRED_CHAPTER_COUNT]) + 1
                   /\ lines[c - 1] = <<>> /\ lines[c + 1] = <<>>
                   /\ e = c + 2 + BodyLen(conclusion_text) + 1
                   /\ lines[e - 1] = <<>> /\ lines[e + 1] = <<>>
                   /\ Strip(lines[e + 2]) = CLOSING_WORD
                   /\ Len(lines) = e + 3
                   /\ lines[e + 3] = <<>>

C11_Witness ==
    /\ pc = "done" /\ formatted.some /\ written = <<"pdf", "md">>
    /\ Len(chapters) = REQUIRED_CHAPTER_COUNT
    /\ args.cfg.include_stats /\ args.cfg.line_spacing = 2
    /\ Len(args.epigraph) > 0

\* --------------------------------------------------------------------- C12
\* the paragraphs of the input: its non-blank parts between blank lines
InputParagraphs == SelectNonBlank(SplitBlank(args.text, <<>>))

\* the empty lines of the output
BlankLines == {k \in 1..Len(SplitNL(ret)) : SplitNL(ret)[k] = <<>>}

\* C12 as stated: when the text has two paragraphs or more, max(spacing, 1) empty
\* lines lie between every two consecutive wrapped paragraphs of the output, so
\* at least one does, also with spacing 1.
C12_BlankLinesBetween ==
    (WrapReturned /\ Len(InputParagraphs) >= 2) =>
        /\ Cardinality(BlankLines) = (Len(InputParagraphs) - 1) * Max(args.line_spacing, 1)
        /\ BlankLines # {}

\* a run of C12: two paragraphs wrapped with spacing 1 come out with a line
\* break and no empty line between them
C12_Witness ==
    /\ WrapReturned /\ Len(InputParagraphs) = 2 /\ args.line_spacing = 1
    /\ BlankLines = {}
    /\ Len(SplitNL(ret)) = 2

\* --------------------------------------------------------------------- C13
NormalizeReturned == pc = "returned" /\ args.fn = "normalize_spacing"

\* C13 as stated: normalize_spacing applied to its own output returns that
\* output, and the output holds no run of three line breaks.
C13_Idempotent ==
    NormalizeReturned =>
        /\ normalize_spacing(ret) = ret
        /\ ~Contains(ret, <<NL, NL, NL>>)

\* a run of C13: a line of one space between line breaks is trimmed after the
\* runs of line breaks were collapsed, which leaves a run of three
C13_Witness ==
    /\ NormalizeReturned
    /\ args.text = <<NL, SP, NL, NL, "a">>
    /\ ret = <<NL, NL, NL, "a">>
    /\ normalize_spacing(ret) = <<NL, NL, "a">>

====
